---- MODULE Spec2Model ----
(***************************************************************************)
(* Read-aloud markdown reader: the narration session kept by the App       *)
(* component (isPlaying / isPaused / currentWordIndex, the restart timers  *)
(* and the utterances handed to window.speechSynthesis) together with the  *)
(* highlight effect of MarkdownViewer, the upload through FileUploader,   *)
(* the tokenized ReaderView, and GeminiPanel with the geminiService calls. *)
(*                                                                         *)
(* Text is a sequence of one-character strings.  Every handler runs to     *)
(* completion (handler, React render, effects) as one action; the speech   *)
(* engine, the timers and the FileReader deliver their callbacks as        *)
(* separate actions.                                                       *)
(***************************************************************************)
EXTENDS Integers, Sequences, FiniteSets, TLC

VARIABLES
    file,              \* useState file: NoFile or the loaded document
    isPlaying,         \* useState isPlaying
    isPaused,          \* useState isPaused
    currentWordIndex,  \* useState currentWordIndex (-1 = none)
    selectedVoice,     \* useState selectedVoice
    rate,              \* useState rate
    dom,               \* text nodes under MarkdownViewer's container, in tree order
    mounted,           \* App is mounted (viewerRef.current is set once a file shows)
    queue,             \* speechSynthesis: utterances speaking or queued
    enginePaused,      \* speechSynthesis.paused
    late,              \* cancelled utterances whose events may still arrive
    timers,            \* pending setTimeout callbacks, in creation order
    reads,             \* FileReader loads in progress
    cmds,              \* playback commands the user has issued so far
    last,              \* the handler or callback that last ran, and its outcome
    available,         \* 'speechSynthesis' in window
    failure,           \* an exception has escaped a handler or an effect of App
    content,           \* ReaderView: the content prop
    elements,          \* ReaderView: tokenizedContent
    wordIndex,         \* ReaderView: the currentWordIndex prop
    seek,              \* ReaderView: the offset last given to onWordClick
    summary,           \* GeminiPanel: useState summary
    isLoadingSummary,  \* GeminiPanel: useState isLoadingSummary
    messages,          \* GeminiPanel: useState messages
    inputValue,        \* GeminiPanel: useState inputValue
    isChatLoading,     \* GeminiPanel: useState isChatLoading
    pending            \* geminiService calls that have not settled yet

vars == <<file, isPlaying, isPaused, currentWordIndex, selectedVoice, rate,
          dom, mounted, queue, enginePaused, late, timers, reads, cmds, last,
          available, failure, content, elements, wordIndex, seek,
          summary, isLoadingSummary, messages, inputValue, isChatLoading, pending>>

session == <<file, isPlaying, isPaused, currentWordIndex, selectedVoice, rate, dom>>
engine == <<queue, enginePaused, late>>
\* App and the speech engine, which ReaderView does not touch
app == <<file, isPlaying, isPaused, currentWordIndex, selectedVoice, rate,
         dom, mounted, queue, enginePaused, late, timers, reads, cmds, last,
         available, failure>>
\* ReaderView, which App does not render
reader == <<content, elements, wordIndex, seek>>
\* GeminiPanel and the calls it has made
gemini == <<summary, isLoadingSummary, messages, inputValue, isChatLoading, pending>>
\* what the narration handlers leave alone once App is mounted
apart == <<available, failure, reader, gemini>>

----------------------------------------------------------------------------
\* Bounds of the model.

\* pending restart timers at once
MaxTimers == 2
\* cancelled utterances the engine still holds a reference to
MaxLate == 1
\* pause/resume events of one utterance not yet delivered
MaxInflight == 1
\* playback commands (buttons, slider, select, clicks) in one behaviour
MaxCmds == 3
\* length of the content given to ReaderView
MaxContentLen == 3
\* chat messages kept by GeminiPanel
MaxMessages == 4

----------------------------------------------------------------------------
\* Values.

NoFile == "null"
NoOffset == -1
InitRate == 10
SeekDelay == 10
ParamDelay == 50
ReplayDelay == 100

\* slider positions, in tenths
Rates == {InitRate, 15}
Voices == {"v1", "v2"}
\* useState<SpeechSynthesisVoice | null>(null)
NoVoice == "null"
\* the voice loadVoices picks: Google US English, else English, else the first
Preferred == "v1"

SP == " "

\* The rendered text runs of each document: "ab " and the emphasised "c. "
\* of one paragraph; a document of whitespace only; an empty document.
Docs == {"two", "blank", "empty"}

DocRuns(d) ==
    CASE d = "two"   -> << <<"a", "b", SP>>, <<"c", ".", SP>> >>
      [] d = "blank" -> << <<SP>> >>
      [] OTHER       -> << >>

----------------------------------------------------------------------------
\* Strings.

RECURSIVE Flatten(_)
Flatten(ss) == IF ss = << >> THEN << >> ELSE Head(ss) \o Flatten(Tail(ss))

\* a blank test that forgets the trim()
IsEmpty(s) == s = << >>

\* s.trim() === ''
IsBlank(s) == \A i \in 1..Len(s) : s[i] = SP

\* s.substring(k)
Substring(s, k) ==
    LET from == IF k < 0 THEN 0 ELSE k
    IN  IF from >= Len(s) THEN << >> ELSE SubSeq(s, from + 1, Len(s))

\* /\w/
IsWordChar(c) == c \in {"a", "b", "c", "d"}

\* the charIndex values of the engine's word boundaries in s
WordStarts(s) ==
    {i \in 0..(Len(s) - 1) : s[i + 1] # SP /\ (i = 0 \/ s[i] = SP)}

----------------------------------------------------------------------------
\* MarkdownViewer: the text nodes and the highlight effect.

\* ReactMarkdown's output: one text node per run, none inside a <mark>.
InitDom(d) ==
    [i \in 1..Len(DocRuns(d)) |-> [text |-> DocRuns(d)[i], src |-> i, mark |-> FALSE]]

\* containerRef.current.innerText
InnerText(nodes) == Flatten([i \in 1..Len(nodes) |-> nodes[i].text])

HasMark(nodes) == \E i \in 1..Len(nodes) : nodes[i].mark

\* a cleanup without parent.normalize()
NoNormalize(nodes) == nodes

\* parent.normalize(): empty text nodes go, adjacent text nodes merge
RECURSIVE Normalize(_)
Normalize(nodes) ==
    IF nodes = << >> THEN << >>
    ELSE LET n == Head(nodes)
             rest == Normalize(Tail(nodes))
         IN  IF n.text = << >> THEN rest
             ELSE IF rest # << >> /\ rest[1].src = n.src
                  THEN <<[n EXCEPT !.text = n.text \o rest[1].text]>> \o Tail(rest)
                  ELSE <<n>> \o rest

\* an effect without the cleanup of the previous highlight
KeepHighlight(nodes) == nodes

\* replaceChild(createTextNode(mark.textContent), mark); parent.normalize()
ClearHighlight(nodes) ==
    IF HasMark(nodes)
    THEN Normalize([i \in 1..Len(nodes) |-> [nodes[i] EXCEPT !.mark = FALSE]])
    ELSE nodes

\* the length of remainingText.match(/^\w+/), or 1
RECURSIVE WordRun(_)
WordRun(s) == IF s # << >> /\ IsWordChar(Head(s)) THEN 1 + WordRun(Tail(s)) ELSE 0

WordLength(remainingText) ==
    IF WordRun(remainingText) > 0 THEN WordRun(remainingText) ELSE 1

\* range.surroundContents(mark) on [offset, offset + len) of text node k
Surround(nodes, k, offset, len) ==
    LET n == nodes[k]
        before == [n EXCEPT !.text = SubSeq(n.text, 1, offset)]
        marked == [n EXCEPT !.text = SubSeq(n.text, offset + 1, offset + len),
                            !.mark = TRUE]
        after  == [n EXCEPT !.text = SubSeq(n.text, offset + len + 1, Len(n.text))]
    IN  SubSeq(nodes, 1, k - 1) \o <<before, marked, after>>
            \o SubSeq(nodes, k + 1, Len(nodes))

\* the walk found no text node for the index
NoPosition == [node |-> 0, offset |-> 0]

\* the TreeWalker loop: the first text node with charCount + length > index,
\* and offset = Math.max(0, currentWordIndex - charCount)
RECURSIVE Locate(_, _, _, _)
Locate(nodes, k, charCount, index) ==
    IF k > Len(nodes) THEN NoPosition
    ELSE LET nodeLength == Len(nodes[k].text)
         IN  IF charCount + nodeLength > index
             THEN [node |-> k,
                   offset |-> IF index - charCount > 0 THEN index - charCount ELSE 0]
             ELSE Locate(nodes, k + 1, charCount + nodeLength, index)

\* the body of the loop at the node found: the word is marked when it ends
\* within the node
Walk(nodes, k, charCount, index) ==
    LET at == Locate(nodes, k, charCount, index)
    IN  IF at = NoPosition THEN nodes
        ELSE LET nodeValue == nodes[at.node].text
                 wordLength == WordLength(Substring(nodeValue, at.offset))
             IN  IF at.offset + wordLength <= Len(nodeValue)
                 THEN Surround(nodes, at.node, at.offset, wordLength)
                 ELSE nodes

\* handleContainerClick found no text node that is the clicked node
NotFound == -1

\* the lengths of the text nodes before node k
RECURSIVE TextBefore(_, _)
TextBefore(nodes, k) ==
    IF k <= 1 THEN 0 ELSE TextBefore(nodes, k - 1) + Len(nodes[k - 1].text)

\* an offsetOf that forgets the text nodes before the clicked one
OffsetInNode(nodes, k, startOffset) ==
    IF k \in 1..Len(nodes) THEN startOffset ELSE NotFound

\* handleContainerClick: the global offset of position startOffset of the
\* clicked node k; k = 0 is a node that is not a text node of the viewer
OffsetOf(nodes, k, startOffset) ==
    IF k \in 1..Len(nodes) THEN TextBefore(nodes, k) + startOffset ELSE NotFound

\* an effect without the return at currentWordIndex < 0 || !isPlaying
HighlightUnguarded(nodes, index, playing) == Walk(ClearHighlight(nodes), 1, 0, index)

\* useEffect(..., [currentWordIndex, isPlaying, content])
HighlightEffect(nodes, index, playing) ==
    LET cleared == ClearHighlight(nodes)
    IN  IF index < 0 \/ ~playing THEN cleared ELSE Walk(cleared, 1, 0, index)

\* The commit after a handler: a new document is rendered afresh, and the
\* effect runs when one of its dependencies changed.
Render(oldFile, oldIndex, oldPlaying, nodes, newFile, newIndex, newPlaying) ==
    IF newFile # oldFile
    THEN IF newFile = NoFile THEN << >>
         ELSE HighlightEffect(InitDom(newFile), newIndex, newPlaying)
    ELSE IF newIndex # oldIndex \/ newPlaying # oldPlaying
         THEN HighlightEffect(nodes, newIndex, newPlaying)
         ELSE nodes

----------------------------------------------------------------------------
\* ReaderView: tokenizedContent.  Indices are 0-based as in the code.

NL == "\n"
Chars == {"a", "b", ".", SP, NL}
Contents == UNION {[1..n -> Chars] : n \in 0..MaxContentLen}

\* /\s/
IsSpace(c) == c \in {SP, NL}

\* content.substring(from, to)
Slice(s, from, to) == SubSeq(s, from + 1, to)

\* wordRegex.exec(content) with wordRegex.lastIndex = from: match.index, the
\* first non-whitespace character at or after from; Len(s) when exec
\* returns null
RECURSIVE MatchIndex(_, _)
MatchIndex(s, from) ==
    IF from >= Len(s) THEN Len(s)
    ELSE IF ~IsSpace(s[from + 1]) THEN from ELSE MatchIndex(s, from + 1)

\* a word pattern /\S/ that takes one character
MatchOneChar(s, start) == start + 1

\* match.index + match[0].length: \S+ takes every non-whitespace character
\* that follows
RECURSIVE MatchEnd(_, _)
MatchEnd(s, start) ==
    IF start >= Len(s) \/ IsSpace(s[start + 1]) THEN start
    ELSE MatchEnd(s, start + 1)

\* if (start > lastIndex) elements.push({text: content.substring(lastIndex,
\* start), index: lastIndex, isWord: false})
PrecedingSeparator(s, lastIndex, start, els) ==
    IF start > lastIndex
    THEN Append(els, [text |-> Slice(s, lastIndex, start), index |-> lastIndex,
                      isWord |-> FALSE])
    ELSE els

\* a word token that records where its match ended
WordTokenAtEnd(s, start, end) ==
    [text |-> Slice(s, start, end), index |-> end, isWord |-> TRUE]

\* elements.push({text: match[0], index: start, isWord: true})
WordToken(s, start, end) ==
    [text |-> Slice(s, start, end), index |-> start, isWord |-> TRUE]

\* a tokenizer without the step for what follows the last word
NoTrailingSeparator(s, lastIndex, els) == els

\* if (lastIndex < content.length) elements.push({text:
\* content.substring(lastIndex), index: lastIndex, isWord: false})
TrailingSeparator(s, lastIndex, els) ==
    IF lastIndex < Len(s)
    THEN Append(els, [text |-> Slice(s, lastIndex, Len(s)), index |-> lastIndex,
                      isWord |-> FALSE])
    ELSE els

\* while ((match = wordRegex.exec(content)) !== null) { ... }; lastIndex is
\* both the variable of that name and the regex's own lastIndex
RECURSIVE TokenLoop(_, _, _)
TokenLoop(s, lastIndex, els) ==
    LET start == MatchIndex(s, lastIndex)
    IN  IF start >= Len(s)
        THEN TrailingSeparator(s, lastIndex, els)
        ELSE LET end == MatchEnd(s, start)
             IN  TokenLoop(s, end, Append(PrecedingSeparator(s, lastIndex, start, els),
                                          WordToken(s, start, end)))

\* useMemo(() => { ... }, [content])
TokenizedContent(s) == TokenLoop(s, 0, << >>)

\* ReaderView is rendered with a new content prop
ReaderRender(c) ==
    /\ c # content
    /\ content' = c
    /\ elements' = TokenizedContent(c)
    /\ UNCHANGED <<wordIndex, seek, app, gemini>>

\* the values of the currentWordIndex prop: none, every offset of the longest
\* content, and the first offset past it
WordIndexes == NoOffset..MaxContentLen

\* ReaderView is rendered with a new currentWordIndex prop
ReaderIndex(i) ==
    /\ i # wordIndex
    /\ wordIndex' = i
    /\ UNCHANGED <<content, elements, seek, app, gemini>>

\* isActive with the end of the token included
IsActiveInclusive(start, text) == wordIndex >= start /\ wordIndex <= start + Len(text)

\* isActive(start, text), with the currentWordIndex of this render
IsActive(start, text) == wordIndex >= start /\ wordIndex < start + Len(text)

\* the spans rendered with the active class: isActive is asked of word
\* tokens only
ActiveTokens ==
    {k \in 1..Len(elements) :
        elements[k].isWord /\ IsActive(elements[k].index, elements[k].text)}

\* onClick={() => onWordClick(token.index)} of the k-th token, a word
ReaderClick(k) ==
    /\ k \in 1..Len(elements) /\ elements[k].isWord
    /\ seek' = elements[k].index
    /\ UNCHANGED <<content, elements, wordIndex, app, gemini>>

----------------------------------------------------------------------------
\* window.speechSynthesis.

\* new SpeechSynthesisUtterance(textToRead) with the callbacks' closure
\* variable startIndex; phase, pos and evq are the engine's bookkeeping:
\* whether it has begun, its last word boundary, and its pause/resume events
\* not yet delivered.
Utterance(startIndex, textToRead, v, r) ==
    [startIndex |-> startIndex, text |-> textToRead, voice |-> v, rate |-> r,
     phase |-> "pending", pos |-> NoOffset, evq |-> << >>]

\* what is left of an utterance that cancel() removed: its callbacks (with
\* their startIndex) and the events the platform may already have sent;
\* by tells whose cancel() it was (startReading's own or a command's) and
\* superseded whether speak() has been called since
Cancelled(u, by) ==
    [startIndex |-> u.startIndex, text |-> u.text, phase |-> u.phase,
     pos |-> u.pos, evq |-> u.evq, by |-> by, superseded |-> FALSE]

LastN(s, n) == IF Len(s) <= n THEN s ELSE SubSeq(s, Len(s) - n + 1, Len(s))

\* cancel(): the queue is emptied at once; events of the removed utterances
\* that the platform had already sent may still be delivered.
CancelQueue(q) == << >>

CancelLate(q, l, by) ==
    LastN(l \o [i \in 1..Len(q) |-> Cancelled(q[i], by)], MaxLate)

\* speak() makes every utterance cancelled before it a superseded one
Supersede(l) == [i \in 1..Len(l) |-> [l[i] EXCEPT !.superseded = TRUE]]

\* speak() on an idle engine: the paused flag is kept (Web Speech API) or
\* reset (engines that start the utterance immediately)
PausedAfterSpeak(q, p) == IF q = << >> THEN {p, FALSE} ELSE {p}

\* a startReading that speaks without the cancel() before it
SpeakNoCancel(q, u) == Append(q, u)

\* startReading: window.speechSynthesis.cancel() ... speak(utterance)
SpeakAfterCancel(q, u) == Append(CancelQueue(q), u)

\* speechSynthesis.speaking
Speaking == queue # << >> /\ queue[1].phase = "speaking"

----------------------------------------------------------------------------
\* App: the callbacks registered on an utterance.

\* utterance.onstart
OnStart ==
    /\ isPlaying' = TRUE
    /\ isPaused' = FALSE
    /\ UNCHANGED currentWordIndex

\* an onend that leaves the offset where it was
OnEndKeepsOffset ==
    /\ isPlaying' = FALSE
    /\ isPaused' = FALSE
    /\ UNCHANGED currentWordIndex

\* utterance.onend
OnEnd ==
    /\ isPlaying' = FALSE
    /\ isPaused' = FALSE
    /\ currentWordIndex' = NoOffset

\* utterance.onpause
OnPause ==
    /\ isPaused' = TRUE
    /\ UNCHANGED <<isPlaying, currentWordIndex>>

\* utterance.onresume
OnResume ==
    /\ isPaused' = FALSE
    /\ UNCHANGED <<isPlaying, currentWordIndex>>

\* an onboundary that forgets the offset the stream started at
BoundaryLocalOnly(startIndex, charIndex) == charIndex

\* setCurrentWordIndex(startIndex + event.charIndex)
BoundaryOffset(startIndex, charIndex) == startIndex + charIndex

\* utterance.onboundary
OnBoundary(startIndex, name, charIndex) ==
    /\ currentWordIndex' =
          IF name = "word" THEN BoundaryOffset(startIndex, charIndex)
          ELSE currentWordIndex
    /\ UNCHANGED <<isPlaying, isPaused>>

\* the status the controls render from the two flags
Status == IF ~isPlaying THEN "Idle" ELSE IF isPaused THEN "Paused" ELSE "Playing"

\* the render and the highlight effect that follow a state change
Commit ==
    dom' = Render(file, currentWordIndex, isPlaying, dom,
                  file', currentWordIndex', isPlaying')

----------------------------------------------------------------------------
\* App: startReading, with the file, voice and rate of the render whose
\* closure is running.

StartReading(f, startIndex, v, r, op) ==
    IF f = NoFile \/ ~mounted
    THEN /\ UNCHANGED engine
         /\ last' = [op |-> op, res |-> "noviewer", src |-> "user"]
    ELSE IF ~available
    THEN \* alert("Text-to-speech is not supported in this browser.")
         /\ UNCHANGED engine
         /\ last' = [op |-> op, res |-> "alert", src |-> "user"]
    ELSE LET textContent == InnerText(dom)
             textToRead == Substring(textContent, startIndex)
         IN  IF IsBlank(textContent)
             THEN /\ UNCHANGED engine
                  /\ last' = [op |-> op, res |-> "blankdoc", src |-> "user"]
             ELSE IF IsBlank(textToRead)
             THEN /\ queue' = CancelQueue(queue)
                  /\ late' = CancelLate(queue, late, "start")
                  /\ UNCHANGED enginePaused
                  /\ last' = [op |-> op, res |-> "blankslice", src |-> "user"]
             ELSE /\ queue' = SpeakAfterCancel(queue,
                                      Utterance(startIndex, textToRead, v, r))
                  /\ late' = Supersede(CancelLate(queue, late, "start"))
                  /\ enginePaused' \in PausedAfterSpeak(CancelQueue(queue), enginePaused)
                  /\ last' = [op |-> op, res |-> "spoke", src |-> "user"]

\* setTimeout(() => startReading(index), delay)
Timer(index, v, r, delay) ==
    [startIndex |-> index, file |-> file, voice |-> v, rate |-> r, delay |-> delay]

\* which handler set the timer, told by its delay
TimerOp(delay) ==
    CASE delay = SeekDelay  -> "seekTimer"
      [] delay = ParamDelay -> "paramTimer"
      [] OTHER              -> "replayTimer"

TimerOps == {"seekTimer", "paramTimer", "replayTimer"}

\* a timer runs before a later one of the same or a longer delay
CanFire(k) == \A j \in 1..(k - 1) : timers[j].delay > timers[k].delay

RemoveAt(s, k) == SubSeq(s, 1, k - 1) \o SubSeq(s, k + 1, Len(s))

----------------------------------------------------------------------------
\* The playback controls.  A control acts only while it is rendered: the
\* footer and the viewer need a file, "Read Aloud" shows while !isPlaying,
\* Pause/Resume/Stop/Restart while isPlaying.

User(op, res) == [op |-> op, res |-> res, src |-> "user"]

Command == cmds < MaxCmds /\ cmds' = cmds + 1

\* <Button onClick={() => startReading(0)}>Read Aloud</Button>
ReadAloud ==
    /\ Command
    /\ mounted /\ UNCHANGED <<mounted, apart>>
    /\ file # NoFile /\ ~isPlaying
    /\ StartReading(file, 0, selectedVoice, rate, "readAloud")
    /\ UNCHANGED <<file, isPlaying, isPaused, currentWordIndex, selectedVoice, rate,
                   timers, reads>>
    /\ Commit

\* the callback of a pending setTimeout
FireTimer(k) ==
    /\ UNCHANGED cmds
    /\ UNCHANGED <<mounted, apart>>
    /\ k \in 1..Len(timers) /\ CanFire(k)
    /\ timers' = RemoveAt(timers, k)
    /\ StartReading(timers[k].file, timers[k].startIndex, timers[k].voice,
                    timers[k].rate, TimerOp(timers[k].delay))
    /\ UNCHANGED <<file, isPlaying, isPaused, currentWordIndex, selectedVoice, rate,
                   reads>>
    /\ Commit

\* onWordClick(index), called by handleContainerClick with the clicked offset
WordClick(index) ==
    /\ Command
    /\ mounted /\ UNCHANGED <<mounted, apart>>
    /\ file # NoFile /\ Len(timers) < MaxTimers
    /\ index \in 0..Len(InnerText(dom))
    /\ queue' = CancelQueue(queue)
    /\ late' = CancelLate(queue, late, "command")
    /\ timers' = Append(timers, Timer(index, selectedVoice, rate, SeekDelay))
    /\ last' = User("click", "timer")
    /\ UNCHANGED <<file, isPlaying, isPaused, currentWordIndex, selectedVoice, rate,
                   enginePaused, reads>>
    /\ Commit

\* handleContainerClick: the selection is at startOffset of node k
ContainerClick(k, startOffset) ==
    IF OffsetOf(dom, k, startOffset) = NotFound
    THEN mounted /\ file # NoFile /\ UNCHANGED vars
    ELSE /\ startOffset \in 0..Len(dom[k].text)
         /\ WordClick(OffsetOf(dom, k, startOffset))

\* a restart that always begins at the top of the document
RestartFromZero(index) == 0

\* const currentIndex = currentWordIndex > 0 ? currentWordIndex : 0
RestartIndex(index) == IF index > 0 THEN index ELSE 0

\* the restart that handleRateChange and handleVoiceChange schedule while
\* isPlaying; the closure holds the voice and rate of the current render
ParamRestart(op) ==
    IF isPlaying
    THEN /\ Len(timers) < MaxTimers
         /\ queue' = CancelQueue(queue)
         /\ late' = CancelLate(queue, late, "command")
         /\ timers' = Append(timers, Timer(RestartIndex(currentWordIndex),
                                           selectedVoice, rate, ParamDelay))
         /\ last' = User(op, "timer")
    ELSE /\ UNCHANGED <<queue, late, timers>>
         /\ last' = User(op, "stored")

\* handleRateChange(newRate)
RateChange(newRate) ==
    /\ Command
    /\ mounted /\ UNCHANGED <<mounted, apart>>
    /\ file # NoFile /\ newRate \in Rates \ {rate}
    /\ rate' = newRate
    /\ ParamRestart("rate")
    /\ UNCHANGED <<file, isPlaying, isPaused, currentWordIndex, selectedVoice,
                   enginePaused, reads>>
    /\ Commit

\* handleVoiceChange(voiceName)
VoiceChange(voice) ==
    /\ Command
    /\ mounted /\ UNCHANGED <<mounted, apart>>
    /\ file # NoFile /\ voice \in Voices \ {selectedVoice}
    /\ selectedVoice' = voice
    /\ ParamRestart("voice")
    /\ UNCHANGED <<file, isPlaying, isPaused, currentWordIndex, rate,
                   enginePaused, reads>>
    /\ Commit

\* pauseReading
PauseReading ==
    /\ Command
    /\ mounted /\ UNCHANGED <<mounted, apart>>
    /\ file # NoFile /\ isPlaying /\ ~isPaused
    /\ IF Speaking /\ ~enginePaused
       THEN /\ Len(queue[1].evq) < MaxInflight
            /\ enginePaused' = TRUE
            /\ queue' = <<[queue[1] EXCEPT !.evq = Append(@, "pause")]>> \o Tail(queue)
            /\ last' = User("pause", "engine")
       ELSE /\ UNCHANGED <<enginePaused, queue>>
            /\ last' = User("pause", "ignored")
    /\ UNCHANGED <<file, isPlaying, isPaused, currentWordIndex, selectedVoice, rate,
                   late, timers, reads>>
    /\ Commit

\* resumeReading
ResumeReading ==
    /\ Command
    /\ mounted /\ UNCHANGED <<mounted, apart>>
    /\ file # NoFile /\ isPlaying /\ isPaused
    /\ IF enginePaused
       THEN /\ enginePaused' = FALSE
            /\ IF Speaking
               THEN /\ Len(queue[1].evq) < MaxInflight
                    /\ queue' = <<[queue[1] EXCEPT !.evq = Append(@, "resume")]>>
                                    \o Tail(queue)
               ELSE UNCHANGED queue
            /\ last' = User("resume", "engine")
       ELSE /\ UNCHANGED <<enginePaused, queue>>
            /\ last' = User("resume", "ignored")
    /\ UNCHANGED <<file, isPlaying, isPaused, currentWordIndex, selectedVoice, rate,
                   late, timers, reads>>
    /\ Commit

\* a stopReading that resets the flags but leaves the engine speaking
StopKeepsStream ==
    /\ isPlaying' = FALSE
    /\ isPaused' = FALSE
    /\ currentWordIndex' = NoOffset
    /\ UNCHANGED <<queue, late, enginePaused>>

\* stopReading
StopReading ==
    /\ queue' = CancelQueue(queue)
    /\ late' = CancelLate(queue, late, "command")
    /\ isPlaying' = FALSE
    /\ isPaused' = FALSE
    /\ currentWordIndex' = NoOffset
    /\ UNCHANGED enginePaused

\* the Stop button
Stop ==
    /\ Command
    /\ mounted /\ UNCHANGED <<mounted, apart>>
    /\ file # NoFile /\ isPlaying
    /\ StopReading
    /\ last' = User("stop", "stopped")
    /\ UNCHANGED <<file, selectedVoice, rate, timers, reads>>
    /\ Commit

\* replayReading
Replay ==
    /\ Command
    /\ mounted /\ UNCHANGED <<mounted, apart>>
    /\ file # NoFile /\ isPlaying /\ Len(timers) < MaxTimers
    /\ StopReading
    /\ timers' = Append(timers, Timer(0, selectedVoice, rate, ReplayDelay))
    /\ last' = User("replay", "timer")
    /\ UNCHANGED <<file, selectedVoice, rate, reads>>
    /\ Commit

\* file.name.endsWith(suffix)
EndsWith(name, suffix) ==
    /\ Len(name) >= Len(suffix)
    /\ SubSeq(name, Len(name) - Len(suffix) + 1, Len(name)) = suffix

MdSuffix == <<".", "m", "d">>
\* names of the files the user picks or drops
FileNames == {<<"a", ".", "m", "d">>, <<"a", ".", "t", "x", "t">>, <<"m", "d">>}

\* FileUploader.processFile of a file with this name and this content: the
\* uploader shows while no file is loaded
FileDrop(name, d) ==
    /\ UNCHANGED cmds
    /\ mounted /\ UNCHANGED <<mounted, apart>>
    /\ file = NoFile /\ d \in Docs \ reads
    /\ IF ~EndsWith(name, MdSuffix)
       THEN \* alert('Please upload a valid Markdown (.md) file.')
            /\ last' = User("drop", "alert")
            /\ UNCHANGED reads
       ELSE /\ reads' = reads \cup {d}
            /\ last' = User("drop", "reading")
    /\ UNCHANGED <<session, engine, timers>>

\* reader.onload -> handleFileUpload(content, fileName)
FileLoaded(d) ==
    /\ UNCHANGED <<cmds, mounted, apart>>
    /\ d \in reads
    /\ reads' = reads \ {d}
    /\ IF mounted
       THEN /\ file' = d
            /\ StopReading
            /\ last' = User("upload", "stopped")
       ELSE \* the setters have no component to update; cancel() still runs
            /\ queue' = CancelQueue(queue)
            /\ late' = CancelLate(queue, late, "command")
            /\ UNCHANGED <<file, isPlaying, isPaused, currentWordIndex, enginePaused>>
            /\ last' = User("upload", "unmounted")
    /\ UNCHANGED <<selectedVoice, rate, timers>>
    /\ Commit

\* The effects of the first render: loadVoices() and onvoiceschanged.  Without
\* window.speechSynthesis the effect throws a TypeError, which no error
\* boundary catches: React unmounts the tree.
Mount ==
    /\ ~mounted /\ last = User("init", "rendered")
    /\ IF available
       THEN /\ mounted' = TRUE
            /\ selectedVoice' = Preferred
            /\ last' = User("init", "mounted")
            /\ UNCHANGED failure
       ELSE /\ failure' = TRUE
            /\ last' = User("init", "TypeError")
            /\ UNCHANGED <<mounted, selectedVoice>>
    /\ UNCHANGED <<available, reader, gemini>>
    /\ UNCHANGED <<file, isPlaying, isPaused, currentWordIndex, rate, dom,
                   engine, timers, reads, cmds>>

\* App is unmounted: the effect cleanup of useEffect(() => () => cancel(), [])
\* runs, the component's state and the viewer are gone; timers and
\* FileReader loads are not cleared
Unmount ==
    /\ UNCHANGED cmds
    /\ mounted /\ mounted' = FALSE
    /\ UNCHANGED apart
    /\ queue' = CancelQueue(queue)
    /\ late' = CancelLate(queue, late, "unmount")
    /\ file' = NoFile
    /\ isPlaying' = FALSE
    /\ isPaused' = FALSE
    /\ currentWordIndex' = NoOffset
    /\ dom' = << >>
    /\ last' = User("unmount", "cancelled")
    /\ UNCHANGED <<selectedVoice, rate, enginePaused, timers, reads>>

----------------------------------------------------------------------------
\* Events of the utterance at the head of the engine's queue.

ByHead(op) == [op |-> op, res |-> "event", src |-> "head"]

EngineStart ==
    /\ UNCHANGED cmds
    /\ mounted /\ UNCHANGED <<mounted, apart>>
    /\ queue # << >> /\ queue[1].phase = "pending" /\ ~enginePaused
    /\ queue' = <<[queue[1] EXCEPT !.phase = "speaking"]>> \o Tail(queue)
    /\ OnStart
    /\ last' = ByHead("start")
    /\ UNCHANGED <<file, selectedVoice, rate, enginePaused, late, timers, reads>>
    /\ Commit

EngineBoundary(name, charIndex) ==
    /\ UNCHANGED cmds
    /\ mounted /\ UNCHANGED <<mounted, apart>>
    /\ Speaking /\ ~enginePaused /\ queue[1].evq = << >>
    /\ charIndex \in WordStarts(queue[1].text) /\ charIndex >= queue[1].pos
    /\ queue' = <<[queue[1] EXCEPT !.pos = IF name = "word" THEN charIndex ELSE @]>>
                    \o Tail(queue)
    /\ OnBoundary(queue[1].startIndex, name, charIndex)
    /\ last' = IF name = "word" THEN ByHead(name) ELSE last
    /\ UNCHANGED <<file, selectedVoice, rate, enginePaused, late, timers, reads>>
    /\ Commit

EngineEnd ==
    /\ UNCHANGED cmds
    /\ mounted /\ UNCHANGED <<mounted, apart>>
    /\ Speaking /\ ~enginePaused /\ queue[1].evq = << >>
    /\ queue' = Tail(queue)
    /\ OnEnd
    /\ last' = ByHead("end")
    /\ UNCHANGED <<file, selectedVoice, rate, enginePaused, late, timers, reads>>
    /\ Commit

\* the pause or resume event that pause() or resume() caused
EngineDeliver ==
    /\ UNCHANGED cmds
    /\ mounted /\ UNCHANGED <<mounted, apart>>
    /\ queue # << >> /\ queue[1].evq # << >>
    /\ queue' = <<[queue[1] EXCEPT !.evq = Tail(@)]>> \o Tail(queue)
    /\ IF queue[1].evq[1] = "pause" THEN OnPause ELSE OnResume
    /\ last' = ByHead(queue[1].evq[1])
    /\ UNCHANGED <<file, selectedVoice, rate, enginePaused, late, timers, reads>>
    /\ Commit

----------------------------------------------------------------------------
\* Events of a cancelled utterance that reach the page after the cancel().

ByLate(op, k) ==
    [op |-> op, res |-> late[k].by, src |-> IF late[k].superseded THEN "stale" ELSE "late"]

LateStart(k) ==
    /\ UNCHANGED cmds
    /\ mounted /\ UNCHANGED <<mounted, apart>>
    /\ k \in 1..Len(late) /\ late[k].phase = "pending"
    /\ late' = [late EXCEPT ![k].phase = "speaking"]
    /\ OnStart
    /\ last' = ByLate("start", k)
    /\ UNCHANGED <<file, selectedVoice, rate, queue, enginePaused, timers, reads>>
    /\ Commit

LateBoundary(k, name, charIndex) ==
    /\ UNCHANGED cmds
    /\ mounted /\ UNCHANGED <<mounted, apart>>
    /\ k \in 1..Len(late) /\ late[k].phase = "speaking" /\ late[k].evq = << >>
    /\ charIndex \in WordStarts(late[k].text) /\ charIndex >= late[k].pos
    /\ late' = [late EXCEPT ![k].pos = IF name = "word" THEN charIndex ELSE @]
    /\ OnBoundary(late[k].startIndex, name, charIndex)
    /\ last' = IF name = "word" THEN ByLate(name, k) ELSE last
    /\ UNCHANGED <<file, selectedVoice, rate, queue, enginePaused, timers, reads>>
    /\ Commit

LateDeliver(k) ==
    /\ UNCHANGED cmds
    /\ mounted /\ UNCHANGED <<mounted, apart>>
    /\ k \in 1..Len(late) /\ late[k].evq # << >>
    /\ late' = [late EXCEPT ![k].evq = Tail(@)]
    /\ IF late[k].evq[1] = "pause" THEN OnPause ELSE OnResume
    /\ last' = ByLate(late[k].evq[1], k)
    /\ UNCHANGED <<file, selectedVoice, rate, queue, enginePaused, timers, reads>>
    /\ Commit

\* the engine closes a cancelled utterance with an end event ...
LateEnd(k) ==
    /\ UNCHANGED cmds
    /\ mounted /\ UNCHANGED <<mounted, apart>>
    /\ k \in 1..Len(late) /\ late[k].phase = "speaking" /\ late[k].evq = << >>
    /\ late' = RemoveAt(late, k)
    /\ OnEnd
    /\ last' = ByLate("end", k)
    /\ UNCHANGED <<file, selectedVoice, rate, queue, enginePaused, timers, reads>>
    /\ Commit

\* ... or with an error event ("canceled", "interrupted"), for which the
\* utterance has no handler, or with nothing
LateDrop(k) ==
    /\ UNCHANGED cmds
    /\ UNCHANGED <<mounted, apart>>
    /\ k \in 1..Len(late)
    /\ late' = RemoveAt(late, k)
    /\ UNCHANGED <<session, queue, enginePaused, timers, reads, last>>

----------------------------------------------------------------------------
\* geminiService and GeminiPanel.

\* how a call of the Gemini API ends: with a text, with no text, or by
\* throwing (no key, no network, a refusal of the server)
Outcomes == {"text", "notext", "error"}

Fulfilled(value) == [state |-> "fulfilled", value |-> value]
Rejected == [state |-> "rejected", value |-> "error"]

\* generateSummary without its try/catch
GenerateSummaryNoCatch(outcome) ==
    IF outcome = "error" THEN Rejected
    ELSE Fulfilled(IF outcome = "text" THEN "summary"
                   ELSE "Could not generate summary.")

\* the promise generateSummary returns
GenerateSummary(outcome) ==
    IF outcome = "error"
    THEN Fulfilled("Error connecting to Gemini API. Please check your API key.")
    ELSE Fulfilled(IF outcome = "text" THEN "summary"
                   ELSE "Could not generate summary.")

\* the promise chatWithDocument returns
ChatWithDocument(outcome) ==
    IF outcome = "error"
    THEN Fulfilled("Error processing your request.")
    ELSE Fulfilled(IF outcome = "text" THEN "answer"
                   ELSE "No response generated.")

\* useState<string | null>(null)
NoSummary == "null"

\* what the user types in the chat input
Inputs == {<< >>, <<SP>>, <<"a">>}

\* onChange={(e) => setInputValue(e.target.value)}
TypeInput(v) ==
    /\ v # inputValue
    /\ inputValue' = v
    /\ UNCHANGED <<summary, isLoadingSummary, messages, isChatLoading, pending>>
    /\ UNCHANGED <<app, reader>>

\* handleGenerateSummary up to its await; the button shows while there is no
\* summary and is disabled while one loads
HandleGenerateSummary ==
    /\ summary = NoSummary /\ ~isLoadingSummary
    /\ isLoadingSummary' = TRUE
    /\ pending' = pending \cup {"summary"}
    /\ UNCHANGED <<summary, messages, inputValue, isChatLoading>>
    /\ UNCHANGED <<app, reader>>

\* the call settles and handleGenerateSummary resumes after its await; a
\* rejected promise would end the handler there
SummarySettled(outcome) ==
    /\ "summary" \in pending
    /\ pending' = pending \ {"summary"}
    /\ LET result == GenerateSummary(outcome)
       IN  IF result.state = "fulfilled"
           THEN /\ summary' = result.value
                /\ isLoadingSummary' = FALSE
           ELSE UNCHANGED <<summary, isLoadingSummary>>
    /\ UNCHANGED <<messages, inputValue, isChatLoading>>
    /\ UNCHANGED <<app, reader>>

\* handleSendMessage up to its await; the submit button is disabled under
\* the condition of the handler's early return
HandleSendMessage ==
    /\ ~IsBlank(inputValue) /\ ~isChatLoading
    /\ Len(messages) + 2 <= MaxMessages
    /\ messages' = Append(messages, [role |-> "user", text |-> inputValue])
    /\ inputValue' = << >>
    /\ isChatLoading' = TRUE
    /\ pending' = pending \cup {"chat"}
    /\ UNCHANGED <<summary, isLoadingSummary>>
    /\ UNCHANGED <<app, reader>>

\* the call settles and handleSendMessage resumes after its await
ChatSettled(outcome) ==
    /\ "chat" \in pending
    /\ pending' = pending \ {"chat"}
    /\ LET result == ChatWithDocument(outcome)
       IN  IF result.state = "fulfilled"
           THEN /\ messages' = Append(messages, [role |-> "model", text |-> result.value])
                /\ isChatLoading' = FALSE
           ELSE UNCHANGED <<messages, isChatLoading>>
    /\ UNCHANGED <<summary, isLoadingSummary, inputValue>>
    /\ UNCHANGED <<app, reader>>

----------------------------------------------------------------------------

Init ==
    /\ file = NoFile
    /\ isPlaying = FALSE
    /\ isPaused = FALSE
    /\ currentWordIndex = NoOffset
    /\ selectedVoice = NoVoice
    /\ rate = InitRate
    /\ dom = << >>
    /\ mounted = FALSE
    /\ queue = << >>
    /\ enginePaused = FALSE
    /\ late = << >>
    /\ timers = << >>
    /\ reads = {}
    /\ cmds = 0
    /\ last = User("init", "rendered")
    /\ available \in BOOLEAN
    /\ failure = FALSE
    /\ content = << >>
    /\ elements = << >>
    /\ wordIndex = NoOffset
    /\ seek = NoOffset
    /\ summary = NoSummary
    /\ isLoadingSummary = FALSE
    /\ messages = << >>
    /\ inputValue = << >>
    /\ isChatLoading = FALSE
    /\ pending = {}

\* event.name of a boundary event
BoundaryNames == {"word", "sentence"}
\* event.charIndex: a position of the longest text
CharIndexes == 0..(Len(Flatten(DocRuns("two"))) - 1)
\* where the user clicks: in "ab c. " the word "c.", the trailing space and
\* the end of the text; in the other documents the end of the text
ClickOffsets(d) ==
    IF d = "two" THEN {3, 5, Len(Flatten(DocRuns(d)))} ELSE {Len(Flatten(DocRuns(d)))}
\* the clicked node: none of the viewer's text nodes (0), or one of them (the
\* runs, of which a mark splits one in three)
ClickNodes == 0..(Len(DocRuns("two")) + 2)
ClickLocals == 0..Len(DocRuns("two")[1])
ClickInput(k, c) ==
    (k = 0 /\ c = 0) \/ (k \in 1..Len(dom) /\ OffsetOf(dom, k, c) \in ClickOffsets(file))

Next ==
    \/ Mount
    \/ ReadAloud
    \/ \E k \in 1..MaxTimers : FireTimer(k)
    \/ \E k \in ClickNodes, c \in ClickLocals : ClickInput(k, c) /\ ContainerClick(k, c)
    \/ \E r \in Rates : RateChange(r)
    \/ \E v \in Voices : VoiceChange(v)
    \/ PauseReading
    \/ ResumeReading
    \/ Stop
    \/ Replay
    \/ \E name \in FileNames, d \in Docs : FileDrop(name, d)
    \/ \E d \in Docs : FileLoaded(d)
    \/ Unmount
    \/ EngineStart
    \/ \E name \in BoundaryNames, i \in CharIndexes : EngineBoundary(name, i)
    \/ EngineEnd
    \/ EngineDeliver
    \/ \E k \in 1..MaxLate : LateStart(k)
    \/ \E k \in 1..MaxLate, name \in BoundaryNames, i \in CharIndexes :
          LateBoundary(k, name, i)
    \/ \E k \in 1..MaxLate : LateDeliver(k)
    \/ \E k \in 1..MaxLate : LateEnd(k)
    \/ \E k \in 1..MaxLate : LateDrop(k)

Spec == Init /\ [][Next]_vars

\* ReaderView on its own, given any content
TokNext ==
    \/ \E c \in Contents : ReaderRender(c)
    \/ \E i \in WordIndexes : ReaderIndex(i)
    \/ \E k \in 1..MaxContentLen : ReaderClick(k)

\* ReaderView needs no speech engine; it is checked in a browser that has one
TokInit == Init /\ available

TokSpec == TokInit /\ [][TokNext]_vars

\* GeminiPanel on its own, shown beside a document
PanelNext ==
    \/ \E v \in Inputs : TypeInput(v)
    \/ HandleGenerateSummary
    \/ \E outcome \in Outcomes : SummarySettled(outcome)
    \/ HandleSendMessage
    \/ \E outcome \in Outcomes : ChatSettled(outcome)

PanelSpec == Init /\ [][PanelNext]_vars

\* every call of the Gemini API settles, one way or another
PanelFairSpec ==
    /\ PanelSpec
    /\ WF_vars(\E outcome \in Outcomes : SummarySettled(outcome))
    /\ WF_vars(\E outcome \in Outcomes : ChatSettled(outcome))

\* The browser's event loop: an utterance the engine is free to begin does
\* begin, the events the engine has queued are delivered, and a timer that
\* is due runs.  What the user does is left open.
FairSpec ==
    /\ Spec
    /\ WF_vars(EngineStart)
    /\ WF_vars(EngineDeliver)
    /\ WF_vars(\E k \in 1..MaxTimers : FireTimer(k))

----------------------------------------------------------------------------
\* Properties of the narration session.

\* a step taken by a callback of an utterance that a command (Stop, Seek,
\* Replay, ChangeRate, ChangeVoice) cancelled before the latest speak()
StaleEventStep == last'.src = "stale" /\ last'.res = "command" /\ last' # last

\* C1: once a stream has been cancelled and a newer one started, no late
\* event of the cancelled stream changes currentWordIndex or the status.
C1_StaleCallbacksSuppressed ==
    [][StaleEventStep => UNCHANGED <<currentWordIndex, isPlaying, isPaused>>]_vars

\* C2: at any point the engine holds at most one utterance, speaking or
\* queued.
C2_AtMostOneStream == Len(queue) <= 1

\* C2 witness: a restart timer has just spoken while another timer is still
\* pending, and exactly one stream is in the engine.
C2_Witness ==
    /\ last.op \in TimerOps /\ last.res = "spoke"
    /\ timers # << >>
    /\ Len(queue) = 1 /\ late # << >>

\* C3: a word boundary with local index i of the stream started at offset b
\* sets currentWordIndex to b + i (pos is the i the engine last reported),
\* and the stream reads the text from b on.
C3_OffsetTranslation ==
    /\ \A i \in 1..Len(queue) :
          queue[i].text = Substring(InnerText(dom), queue[i].startIndex)
    /\ (last.op = "word" /\ last.src = "head") =>
          /\ queue # << >>
          /\ currentWordIndex = queue[1].startIndex + queue[1].pos

\* C3 witness: after a seek to offset 3 the boundary at local index 0 has
\* put currentWordIndex at 3.
C3_Witness ==
    /\ last.op = "word" /\ last.src = "head"
    /\ queue # << >> /\ queue[1].startIndex = 3 /\ queue[1].pos = 0
    /\ currentWordIndex = 3

\* C4: the stream that the restart of a rate or voice change creates is
\* spoken with the rate and voice now stored, not with the ones stored
\* before the change.
C4_RestartUsesNewParameter ==
    (last.op = "paramTimer" /\ last.res = "spoke") =>
        /\ queue # << >>
        /\ queue[1].rate = rate
        /\ queue[1].voice = selectedVoice

\* a step of handleRateChange or handleVoiceChange
ParamStep == rate' # rate \/ selectedVoice' # selectedVoice

\* C5: a rate or voice change while isPlaying cancels the stream and
\* schedules one restart at currentWordIndex (at 0 when there is none), the
\* stream that restart creates starts at exactly that offset, and a change
\* while not playing touches nothing but the stored parameter.
C5_RestartKeepsPosition ==
    [][ /\ (ParamStep /\ isPlaying) =>
              /\ Len(timers') = Len(timers) + 1
              /\ SubSeq(timers', 1, Len(timers)) = timers
              /\ timers'[Len(timers')].startIndex =
                    (IF currentWordIndex = NoOffset THEN 0 ELSE currentWordIndex)
              /\ queue' = << >>
              /\ UNCHANGED <<currentWordIndex, isPlaying, isPaused>>
        /\ (ParamStep /\ ~isPlaying) =>
              UNCHANGED <<queue, late, enginePaused, timers,
                          currentWordIndex, isPlaying, isPaused, dom>>
        /\ (Len(timers') < Len(timers) /\ last'.res = "spoke") =>
              \E k \in 1..Len(timers) :
                  /\ timers' = RemoveAt(timers, k)
                  /\ queue' # << >>
                  /\ queue'[1].startIndex = timers[k].startIndex
      ]_vars

\* C5 witness: the restart of a parameter change has spoken from offset 3,
\* the offset the session was at.
C5_Witness ==
    /\ last.op = "paramTimer" /\ last.res = "spoke"
    /\ queue # << >> /\ queue[1].startIndex = 3

\* C6: after stopReading (the Stop button, Restart, a new upload) no stream
\* is in the engine, no highlight is present, currentWordIndex is -1 and
\* both flags are false.
C6_StopResets ==
    last.op \in {"stop", "replay", "upload"} =>
        /\ queue = << >>
        /\ ~HasMark(dom)
        /\ currentWordIndex = NoOffset
        /\ ~isPlaying /\ ~isPaused

\* C6 witness: Stop has cancelled a stream that had reported a word.
C6_Witness ==
    /\ last.op = "stop"
    /\ late # << >>
    /\ late[Len(late)].by = "command" /\ late[Len(late)].pos >= 0

\* C7: right after a seek or a replay, during the settling delay, the
\* session is in the state Stop leaves it in.
C7_SeekIsStopThenStart ==
    last.op \in {"click", "replay"} =>
        /\ queue = << >>
        /\ ~HasMark(dom)
        /\ currentWordIndex = NoOffset
        /\ ~isPlaying /\ ~isPaused

\* the text from offset o on is empty or whitespace
BlankFrom(o) ==
    \A i \in (o + 1)..Len(InnerText(dom)) : InnerText(dom)[i] = SP

\* C8, as claimed: a start on a blank rest of the text changes nothing in
\* the session or the engine and leaves the status Idle.
C8_BlankStartIsNoOp ==
    [][ /\ \A k \in 1..Len(timers) :
              (Len(timers') < Len(timers) /\ timers' = RemoveAt(timers, k)
                 /\ BlankFrom(timers[k].startIndex)) =>
                  (UNCHANGED <<session, engine>> /\ Status' = "Idle")
        /\ (cmds' # cmds /\ last'.op = "readAloud" /\ BlankFrom(0)) =>
              (UNCHANGED <<session, engine>> /\ Status' = "Idle")
      ]_vars

\* what a start on a blank rest of the text does: no stream afterwards, the
\* session and the engine's paused flag as they were, and the engine
\* untouched when the whole document is blank
BlankStartEffect ==
    /\ queue' = << >>
    /\ UNCHANGED <<session, enginePaused>>
    /\ BlankFrom(0) => UNCHANGED engine

\* C8, amended: a start on a blank rest of the text creates no stream and
\* changes nothing in the session (so an Idle session stays Idle); it still
\* cancels a stream in the engine unless the whole document is blank.
C8_BlankStartCreatesNoStream ==
    [][ /\ \A k \in 1..Len(timers) :
              (Len(timers') < Len(timers) /\ timers' = RemoveAt(timers, k)
                 /\ BlankFrom(timers[k].startIndex)) => BlankStartEffect
        /\ (cmds' # cmds /\ last'.op = "readAloud" /\ BlankFrom(0)) =>
              BlankStartEffect
      ]_vars

\* C8 witness: the restart of a seek into the trailing whitespace has
\* cancelled the stream of an earlier restart and spoken nothing.
C8_Witness ==
    /\ last.op = "seekTimer" /\ last.res = "blankslice"
    /\ queue = << >>
    /\ late # << >> /\ late[Len(late)].by = "start"

\* the streams in the engine are the same utterances at the same offsets
SameStreams ==
    /\ Len(queue') = Len(queue)
    /\ \A i \in 1..Len(queue) :
          /\ queue'[i].startIndex = queue[i].startIndex
          /\ queue'[i].text = queue[i].text
          /\ queue'[i].phase = queue[i].phase
          /\ queue'[i].pos = queue[i].pos

\* C9: pauseReading runs only while Playing and resumeReading only while
\* Paused; Pause hands over to the engine's pause(), which leaves the engine
\* paused, and Resume to its resume(); neither cancels or recreates the
\* stream or moves the offset; the stream's pause event makes the status
\* Paused and its resume event Playing.
C9_PauseResume ==
    [][ /\ (cmds' # cmds /\ last'.op = "pause") =>
              /\ Status = "Playing"
              /\ SameStreams
              /\ UNCHANGED <<session, late, timers>>
              /\ enginePaused'
        /\ (cmds' # cmds /\ last'.op = "resume") =>
              /\ Status = "Paused"
              /\ SameStreams
              /\ UNCHANGED <<session, late, timers>>
              /\ ~enginePaused'
        /\ (last'.src = "head" /\ last'.op = "pause" /\ queue' # queue) =>
              /\ isPaused'
              /\ isPlaying => Status' = "Paused"
              /\ UNCHANGED <<currentWordIndex, isPlaying>>
        /\ (last'.src = "head" /\ last'.op = "resume" /\ queue' # queue) =>
              /\ ~isPaused'
              /\ isPlaying => Status' = "Playing"
              /\ UNCHANGED <<currentWordIndex, isPlaying>>
      ]_vars

\* C10: when the active stream ends, both flags are false, currentWordIndex
\* is -1 and no highlight is left.
C10_EndResets ==
    (last.op = "end" /\ last.src = "head") =>
        /\ ~isPlaying /\ ~isPaused
        /\ currentWordIndex = NoOffset
        /\ ~HasMark(dom)

\* C10 witness: the active stream has ended and left the engine idle.
C10_Witness ==
    /\ last.op = "end" /\ last.src = "head"
    /\ queue = << >> /\ Status = "Idle"

\* a step of startReading(o) that finds a non-blank rest of the text
StartStep(o) ==
    /\ ~BlankFrom(o)
    /\ \/ cmds' # cmds /\ last'.op = "readAloud" /\ o = 0
       \/ \E k \in 1..Len(timers) :
             /\ Len(timers') < Len(timers) /\ timers' = RemoveAt(timers, k)
             /\ timers[k].startIndex = o

\* C11: a start on a non-blank rest of the text puts one new stream in the
\* engine whose base is the offset given and which reads the text from
\* there; the start itself leaves the status alone, the stream's own start
\* event makes it Playing; and a stream handed to the engine while the
\* session is Idle is in the end started (Playing) or cancelled.
C11_StartThenPlaying ==
    /\ [][ /\ \A o \in 0..Len(InnerText(dom)) : StartStep(o) =>
                 /\ Len(queue') = 1
                 /\ queue'[1].startIndex = o
                 /\ queue'[1].text = Substring(InnerText(dom), o)
                 /\ queue'[1].phase = "pending"
                 /\ UNCHANGED <<isPlaying, isPaused, currentWordIndex>>
           /\ (last'.src = "head" /\ last'.op = "start" /\ queue' # queue) =>
                 Status' = "Playing"
         ]_vars
    /\ (queue # << >> /\ queue[1].phase = "pending" /\ Status = "Idle")
          ~> (Status = "Playing" \/ queue = << >>)

\* a step within the life of one stream that has reported a word: the
\* engine holds it before and after (a new utterance has reported none)
WithinStream ==
    /\ queue # << >> /\ queue[1].pos >= 0
    /\ queue' # << >> /\ queue'[1].pos >= 0

\* C12: while one stream runs uninterrupted, its boundary events coming in
\* non-decreasing order, currentWordIndex never decreases and the stream's
\* base stays what it is.
C12_OffsetMonotonic ==
    [][WithinStream =>
          /\ currentWordIndex' >= currentWordIndex
          /\ queue'[1].startIndex = queue[1].startIndex]_vars

\* C13: a new upload and the unmount of App leave no stream in the engine,
\* nothing is spoken after the unmount, and a restart that was scheduled
\* while another document (or none any more) was shown starts no stream.
C13_TeardownCancels ==
    /\ [](last.op \in {"upload", "unmount"} => queue = << >>)
    /\ [](~mounted => queue = << >>)
    /\ [][\A k \in 1..Len(timers) :
            (Len(timers') < Len(timers) /\ timers' = RemoveAt(timers, k)
               /\ timers[k].file # file) => queue' = << >>]_vars

\* the texts of the tokens, joined in order
Concat(els) == Flatten([i \in 1..Len(els) |-> els[i].text])

\* C14: the texts of the tokens, joined in order, are the content.
C14_TokenizerRoundTrip == Concat(elements) = content

\* C14 witness: a word between leading and trailing whitespace gives three
\* tokens.
C14_Witness ==
    /\ content = <<SP, "a", NL>>
    /\ Len(elements) = 3 /\ Concat(elements) = content

\* C15: the first token starts at 0, each token starts where the one before
\* it ends, the last ends at the length of the content, no token is empty,
\* and each token's text is the content at its index.
C15_TokensPartition ==
    /\ elements # << >> => elements[1].index = 0
    /\ \A i \in 2..Len(elements) :
          elements[i].index = elements[i - 1].index + Len(elements[i - 1].text)
    /\ elements # << >> =>
          elements[Len(elements)].index + Len(elements[Len(elements)].text)
              = Len(content)
    /\ content # << >> => elements # << >>
    /\ \A i \in 1..Len(elements) :
          /\ elements[i].text # << >>
          /\ Slice(content, elements[i].index,
                   elements[i].index + Len(elements[i].text)) = elements[i].text

\* C15 witness: two words and the separator between them, at 0, 1 and 2.
C15_Witness ==
    /\ content = <<"a", SP, "b">>
    /\ Len(elements) = 3
    /\ elements[2].index = 1 /\ elements[3].index = 2

\* C16: a word token has no whitespace and any other token nothing else,
\* adjacent tokens differ in kind, empty content gives no token, content
\* without whitespace one word token, and whitespace at either end of the
\* content is a separator token.
C16_TokenKinds ==
    /\ \A i \in 1..Len(elements) : \A j \in 1..Len(elements[i].text) :
          elements[i].isWord = ~IsSpace(elements[i].text[j])
    /\ \A i \in 2..Len(elements) : elements[i].isWord # elements[i - 1].isWord
    /\ content = << >> => elements = << >>
    /\ (content # << >> /\ \A j \in 1..Len(content) : ~IsSpace(content[j])) =>
          elements = <<[text |-> content, index |-> 0, isWord |-> TRUE]>>
    /\ (content # << >> /\ IsSpace(content[1])) => ~elements[1].isWord
    /\ (content # << >> /\ IsSpace(content[Len(content)])) =>
          ~elements[Len(elements)].isWord

\* C16 witness: content without whitespace is one word token.
C16_Witness ==
    /\ content = <<"a", ".", "b">>
    /\ elements = <<[text |-> content, index |-> 0, isWord |-> TRUE]>>

\* C17: for every offset o within the text of the viewer's text nodes, the
\* walk of the highlight effect lands on the node that holds position o, at
\* o minus the lengths of the nodes before it, and the click handler's
\* offset for that node and local offset is o again, with or without a mark
\* splitting a run.
C17_MapperRoundTrip ==
    \A o \in 0..(Len(InnerText(dom)) - 1) :
        LET at == Locate(dom, 1, 0, o)
        IN  /\ at # NoPosition
            /\ at.node \in 1..Len(dom)
            /\ at.offset = o - TextBefore(dom, at.node)
            /\ at.offset \in 0..(Len(dom[at.node].text) - 1)
            /\ dom[at.node].text[at.offset + 1] = InnerText(dom)[o + 1]
            /\ OffsetOf(dom, at.node, at.offset) = o

\* C17 witness: with "c" marked, the run "c. " is three nodes (an empty
\* one, the mark, ". "); offset 4 is found at the start of the fourth node
\* and maps back to 4.
C17_Witness ==
    /\ HasMark(dom) /\ Len(dom) = 4
    /\ Locate(dom, 1, 0, 4) = [node |-> 4, offset |-> 0]
    /\ OffsetOf(dom, 4, 0) = 4

\* the text nodes that lie inside a <mark>
Marks == {i \in 1..Len(dom) : dom[i].mark}

\* C18: at most one stretch of the rendered text is marked, whatever the
\* sequence of offset, playing-flag and content changes.
C18_OneHighlight == Cardinality(Marks) <= 1

\* C18 witness: the stream that began at 0 has moved on to the word at 3,
\* and that word alone is marked.
C18_Witness ==
    /\ last.op = "word" /\ last.src = "head"
    /\ queue # << >> /\ queue[1].startIndex = 0 /\ currentWordIndex = 3
    /\ Cardinality(Marks) = 1
    /\ \E i \in Marks : TextBefore(dom, i) = 3

\* C19: with a negative offset, an offset past the end of the text, or
\* playback not active, no highlight is present after the effect and the
\* walk finds no position; a click on a node that is not a text node of the
\* viewer yields no offset.
C19_MissLeavesNoHighlight ==
    /\ (currentWordIndex < 0 \/ ~isPlaying
           \/ currentWordIndex >= Len(InnerText(dom))) => ~HasMark(dom)
    /\ \A o \in Len(InnerText(dom))..(Len(InnerText(dom)) + 1) :
          Locate(dom, 1, 0, o) = NoPosition
    /\ \A c \in ClickLocals : OffsetOf(dom, 0, c) = NotFound

\* C19 witness: the session is playing with an offset past the end of the
\* text shown, and nothing is marked.
C19_Witness ==
    /\ isPlaying /\ dom # << >>
    /\ currentWordIndex >= Len(InnerText(dom))
    /\ ~HasMark(dom)

\* the number of characters of s before its first whitespace
RECURSIVE UntilSpace(_)
UntilSpace(s) == IF s = << >> \/ Head(s) = SP THEN 0 ELSE 1 + UntilSpace(Tail(s))

\* the text of the run from the start of the marked node i on
FromMark(i) ==
    dom[i].text \o (IF i < Len(dom) /\ dom[i + 1].src = dom[i].src
                    THEN dom[i + 1].text ELSE << >>)

\* C20: the marked stretch runs from the located offset up to the next
\* whitespace of the run, and is one character long when the offset is at a
\* whitespace.
C20_WordLengthToWhitespace ==
    \A i \in Marks :
        Len(dom[i].text) =
            (IF UntilSpace(FromMark(i)) > 0 THEN UntilSpace(FromMark(i)) ELSE 1)

\* C21: clearing a highlight gives back the text nodes as they were before
\* it was applied, in number and in text, and the text of the viewer is the
\* same at every step, marked or not.
C21_ClearRestoresRuns ==
    (mounted /\ file # NoFile) =>
        /\ InnerText(dom) = Flatten(DocRuns(file))
        /\ ClearHighlight(dom) = InitDom(file)
        /\ ~HasMark(dom) => dom = InitDom(file)

\* C21 witness: Stop has cleared the mark of the word at 3, and the two
\* runs are back as rendered.
C21_Witness ==
    /\ last.op = "stop" /\ late # << >> /\ late[Len(late)].pos = 3
    /\ file = "two" /\ dom = InitDom(file)

\* the input is reported and nothing else happens
Refused ==
    /\ last'.res = "alert"
    /\ UNCHANGED <<session, engine, timers, reads>>

\* C22: an upload of a file of the wrong type, or of an empty document, is
\* reported to the user and changes nothing: no document is loaded, and the
\* session, the engine and the timers are as before.
C22_InputRejected ==
    [][ /\ \A name \in FileNames, d \in Docs :
              (FileDrop(name, d) /\ ~EndsWith(name, MdSuffix)) => Refused
        /\ FileLoaded("empty") => Refused ]_vars

\* C23: without a speech engine no exception escapes, no utterance is ever
\* queued and the session stays Idle, whatever control the user operates.
C23_UnavailableInert ==
    ~available => (~failure /\ queue = << >> /\ Status = "Idle")

\* C24: a summary or chat request never fails: when the call settles, also
\* by an error of the API, the panel gets a string (the summary, or one more
\* message of the model) and its loading flag is cleared; a loading flag is
\* set only while a call is out, and is cleared in the end.
C24_AssistantNeverFails ==
    /\ [][ /\ ("summary" \in pending /\ "summary" \notin pending') =>
                  (summary' # NoSummary /\ ~isLoadingSummary')
           /\ ("chat" \in pending /\ "chat" \notin pending') =>
                  /\ Len(messages') = Len(messages) + 1
                  /\ messages'[Len(messages')].role = "model"
                  /\ ~isChatLoading' ]_vars
    /\ [](isLoadingSummary <=> "summary" \in pending)
    /\ [](isChatLoading <=> "chat" \in pending)
    /\ isLoadingSummary ~> ~isLoadingSummary
    /\ isChatLoading ~> ~isChatLoading

\* C24 witness: both calls have failed; the panel shows the two error texts
\* and neither flag is set.
C24_Witness ==
    /\ summary = "Error connecting to Gemini API. Please check your API key."
    /\ ~isLoadingSummary
    /\ messages # << >>
    /\ messages[Len(messages)] = [role |-> "model", text |-> "Error processing your request."]
    /\ ~isChatLoading /\ pending = {}

\* C25: after Stop, or after a document replacement, and until the user
\* issues a new command or drops a file, no utterance is queued and the
\* session stays Idle, also when a restart delayed by an earlier
\* Seek/Replay/ChangeRate/ChangeVoice had not run yet.
C25_StopIsFinal ==
    [][ (last.op \in {"stop", "upload"} /\ mounted /\ cmds' = cmds /\ reads' = reads)
            => (queue' = << >> /\ Status' = "Idle") ]_vars

\* C26: the session is never paused without playing, and whenever it is
\* Idle the current offset is -1 and the viewer holds no highlight.
C26_StatusWellFormed ==
    /\ isPaused => isPlaying
    /\ Status = "Idle" => (currentWordIndex = NoOffset /\ ~HasMark(dom))

\* the characters of the run of node i that lie before node i
LocalOffset(i) ==
    TextBefore(dom, i) - TextBefore(InitDom(file), dom[i].src)

\* the range of a highlight: a non-empty stretch of one run, inside the
\* run's bounds, that starts at the offset it was applied for.
C27_HighlightInsideRun ==
    \A i \in Marks :
        /\ dom[i].src \in 1..Len(DocRuns(file))
        /\ 0 <= LocalOffset(i)
        /\ LocalOffset(i) < LocalOffset(i) + Len(dom[i].text)
        /\ LocalOffset(i) + Len(dom[i].text) <= Len(DocRuns(file)[dom[i].src])
        /\ dom[i].text = SubSeq(DocRuns(file)[dom[i].src], LocalOffset(i) + 1,
                                LocalOffset(i) + Len(dom[i].text))
        /\ TextBefore(dom, i) = currentWordIndex

\* C27: a highlight lies inside one run, starts at the offset it was applied
\* for, and covers a word: it is never a single whitespace character.
C27_HighlightCoversWord ==
    /\ C27_HighlightInsideRun
    /\ \A i \in Marks : \E j \in 1..Len(dom[i].text) : dom[i].text[j] # SP

\* the tokens whose stretch of the content holds the current index
Containing ==
    {k \in 1..Len(elements) :
        /\ elements[k].index <= wordIndex
        /\ wordIndex < elements[k].index + Len(elements[k].text)}

\* C28: at most one token is rendered active, and it is the token that holds
\* the current index; exactly one token holds an index inside the content,
\* none holds -1 or an index past the end; a click on a word token seeks to
\* the offset at which that token starts in the content.
C28_OneActiveToken ==
    /\ [] /\ Cardinality(ActiveTokens) <= 1
          /\ ActiveTokens \subseteq Containing
          /\ (0 <= wordIndex /\ wordIndex < Len(content)) => Cardinality(Containing) = 1
          /\ (wordIndex = NoOffset \/ wordIndex >= Len(content)) =>
                 (Containing = {} /\ ActiveTokens = {})
    /\ [][ seek' # seek =>
              \E k \in 1..Len(elements) :
                  /\ elements[k].isWord
                  /\ seek' = elements[k].index
                  /\ Slice(content, seek', seek' + Len(elements[k].text)) = elements[k].text
          ]_vars

\* C28 witness: in "a b" the index 2 makes the third token, "b", the one
\* active token, and a click on it has asked for a seek to 2.
C28_Witness ==
    /\ content = <<"a", SP, "b">> /\ wordIndex = 2 /\ seek = 2
    /\ ActiveTokens = {3}

====
